---- MODULE Spec2Model ----
(***************************************************************************)
(* Model of the stream-decoding helpers of                                 *)
(*   pkg/xstreamencoding/streaming.go       (ScannerHelper, BatchHelper)   *)
(*   extension/encoding/encoding.go         (DecoderOptions and options)   *)
(*   extension/encoding/textencodingextension/text.go (textLogCodec)       *)
(*                                                                         *)
(* Bytes are their numeric values (10 = '\n', 32 = ' ', 97 = 'a').  A byte *)
(* slice is a sequence of bytes.  A stream source is a finite byte         *)
(* sequence read front to back, which may fail one read with an error      *)
(* other than io.EOF at a chosen position.                                 *)
(***************************************************************************)
EXTENDS Integers, Sequences, FiniteSets, TLC

VARIABLES
    batchHelper,   \* the BatchHelper: options, currentBytes, currentItems
    source,        \* the io.Reader: data, read position, pending failure
    helper,        \* the ScannerHelper: construction outcome and offset
    decoder,       \* the text LogsDecoder: bufio.Scanner state, offsetTracker
    ret,           \* what the last call returned
    hist           \* history of the session (record of what was returned)

vars == <<batchHelper, source, helper, decoder, ret, hist>>

----------------------------------------------------------------------------
(* Bounds of the model                                                     *)

MaxLen == 4          \* longest enumerated source, in bytes
MaxInc == 3          \* largest single IncrementBytes / IncrementItems
MaxCount == 7        \* cap of the BatchHelper counters in the tracker runs
MaxDecLen == 3       \* longest enumerated source of the text decoder, in bytes
MaxOpts == 3         \* longest enumerated list of options
MaxResumeLen == 4    \* longest enumerated source of the resume runs, in bytes
MaxFiniteLen == 3    \* longest enumerated source of the finite runs, in bytes
MaxLines == 4        \* most lines of a source of the line runs
MaxTripEvents == 5   \* most builder steps of a batch of the round-trip runs
MaxEvents == 7       \* most AppendEmpty calls that build an enumerated plog.Logs

Alphabet == {10, 32, 97}
DecAlphabet == {10, 97, 255}

----------------------------------------------------------------------------
(* Program constants                                                       *)

defaultFlushBytes == 1048576
defaultFlushItems == 1000
Delim == 10

\* bytes.TrimSpace: the ASCII white space of unicode.IsSpace
asciiSpace == {9, 10, 11, 12, 13, 32}

\* error values: the message, and for an error built by fmt.Errorf with %d
\* and %w the number it names and the message of the error it wraps
BaseError(msg) == [msg |-> msg, names |-> -1, wraps |-> ""]
Nil == BaseError("nil")
EOF == BaseError("io.EOF")
ErrSource == BaseError("source read error")
ErrNegativeCount == BaseError("bufio: negative count")

----------------------------------------------------------------------------
(* Byte-slice helpers                                                      *)

Min(a, b) == IF a <= b THEN a ELSE b

\* s[from+1 .. to] : the Go slice s[from:to]
Slice(s, from, to) == SubSeq(s, from + 1, to)

SeqsUpTo(S, n) == UNION {[1..k -> S] : k \in 0..n}

\* f(x), with x computed once, before f is applied to it
Apply(f(_), x) == CHOOSE out \in {f(v) : v \in {x}} : TRUE

\* bytes.TrimSpace(b)
TrimSpace(b) ==
    LET keep == {i \in 1..Len(b) : b[i] \notin asciiSpace}
    IN  IF keep = {} THEN <<>>
        ELSE LET lo == CHOOSE i \in keep : \A j \in keep : i <= j
                 hi == CHOOSE i \in keep : \A j \in keep : j <= i
             IN  SubSeq(b, lo, hi)

----------------------------------------------------------------------------
(* extension/encoding: DecoderOptions                                      *)

WithFlushBytes(b) == [field |-> "FlushBytes", value |-> b]
WithFlushItems(i) == [field |-> "FlushItems", value |-> i]
WithOffset(offset) == [field |-> "Offset", value |-> offset]

\* o(&options) for one option
ApplyOption(o, options) == [options EXCEPT ![o.field] = o.value]

\* the loop applying the options from the last to the first
RECURSIVE ApplyOptionsLastFirst(_, _)
ApplyOptionsLastFirst(opts, options) ==
    IF opts = <<>> THEN options
    ELSE ApplyOption(Head(opts), ApplyOptionsLastFirst(Tail(opts), options))

RECURSIVE ApplyOptions(_, _)
ApplyOptions(opts, options) ==
    IF opts = <<>> THEN options
    ELSE ApplyOptions(Tail(opts), ApplyOption(Head(opts), options))

NewDecoderOptions(opts) ==
    ApplyOptions(opts, [FlushBytes |-> defaultFlushBytes,
                        FlushItems |-> defaultFlushItems,
                        Offset |-> 0])

----------------------------------------------------------------------------
(* pkg/xstreamencoding: BatchHelper                                        *)

NewBatchHelper(opts) ==
    [options |-> NewDecoderOptions(opts), currentBytes |-> 0, currentItems |-> 0]

IncrementBytes(sh, n) == [sh EXCEPT !.currentBytes = @ + n]

IncrementItems(sh, n) == [sh EXCEPT !.currentItems = @ + n]

ShouldFlushStrict(sh) ==
    \/ sh.options.FlushBytes > 0 /\ sh.currentBytes > sh.options.FlushBytes
    \/ sh.options.FlushItems > 0 /\ sh.currentItems > sh.options.FlushItems

ShouldFlushNoGuard(sh) ==
    sh.currentBytes >= sh.options.FlushBytes \/ sh.currentItems >= sh.options.FlushItems

ShouldFlush(sh) ==
    IF sh.options.FlushBytes > 0 /\ sh.currentBytes >= sh.options.FlushBytes
    THEN TRUE
    ELSE IF sh.options.FlushItems > 0 /\ sh.currentItems >= sh.options.FlushItems
         THEN TRUE
         ELSE FALSE

Reset(sh) == [sh EXCEPT !.currentBytes = 0, !.currentItems = 0]

----------------------------------------------------------------------------
(* Tracker runs: a BatchHelper driven directly by its caller               *)

NoSource == [data |-> <<>>, rd |-> 0, failAt |-> -1]
NoBatchHelper == [state |-> "none"]
NoHelper == [state |-> "none"]
NoDecoder == [state |-> "none"]
NoRet == [op |-> "none"]

\* option lists the tracker runs are built with
TrackerOption ==
    {WithFlushBytes(b) : b \in {0, 2, 5}} \cup {WithFlushItems(i) : i \in {0, 2, 5}}
TrackerOpts == SeqsUpTo(TrackerOption, 2)

InitBatch ==
    /\ \E opts \in TrackerOpts : batchHelper = NewBatchHelper(opts)
    /\ source = NoSource
    /\ helper = NoHelper
    /\ decoder = NoDecoder
    /\ ret = NoRet
    /\ hist = [bytes |-> 0, items |-> 0]

CallIncrementBytes ==
    \E n \in 0..MaxInc :
        /\ batchHelper # NoBatchHelper
        /\ batchHelper.currentBytes + n <= MaxCount
        /\ batchHelper' = IncrementBytes(batchHelper, n)
        /\ hist' = [hist EXCEPT !.bytes = @ + n]
        /\ ret' = [op |-> "IncrementBytes"]
        /\ UNCHANGED <<source, helper, decoder>>

CallIncrementItems ==
    \E n \in 0..MaxInc :
        /\ batchHelper # NoBatchHelper
        /\ batchHelper.currentItems + n <= MaxCount
        /\ batchHelper' = IncrementItems(batchHelper, n)
        /\ hist' = [hist EXCEPT !.items = @ + n]
        /\ ret' = [op |-> "IncrementItems"]
        /\ UNCHANGED <<source, helper, decoder>>

CallShouldFlush ==
    /\ batchHelper # NoBatchHelper
    /\ ret' = [op |-> "ShouldFlush", flush |-> ShouldFlush(batchHelper)]
    /\ UNCHANGED <<batchHelper, source, helper, decoder, hist>>

CallReset ==
    /\ batchHelper # NoBatchHelper
    /\ batchHelper' = Reset(batchHelper)
    /\ hist' = [bytes |-> 0, items |-> 0]
    /\ ret' = [op |-> "Reset"]
    /\ UNCHANGED <<source, helper, decoder>>

NextBatch ==
    \/ CallIncrementBytes
    \/ CallIncrementItems
    \/ CallShouldFlush
    \/ CallReset

SpecBatch == InitBatch /\ [][NextBatch]_vars

----------------------------------------------------------------------------
(* The stream source.  data is the whole byte sequence, rd the number of   *)
(* bytes already taken from it, and failAt >= 0 the position at which one  *)
(* read fails with an error that is not io.EOF (failAt = -1: no failure).  *)

NewReader(data, failAt) == [data |-> data, rd |-> 0, failAt |-> failAt]

ReadLimit(br) == IF br.failAt >= 0 THEN br.failAt ELSE Len(br.data)

ReadError(br) == IF br.failAt >= 0 THEN ErrSource ELSE EOF

\* bufio.Reader.ReadBytes(delim): the bytes up to and including the first
\* delim; if the source ends or fails before a delim, the bytes read so far
\* together with the error.
ReadBytes(br, delim) ==
    LET limit == ReadLimit(br)
        hits == {i \in (br.rd + 1)..limit : br.data[i] = delim}
    IN  IF hits # {}
        THEN LET i == CHOOSE x \in hits : \A y \in hits : x <= y
             IN  [br |-> [br EXCEPT !.rd = i],
                  b |-> Slice(br.data, br.rd, i),
                  err |-> Nil]
        ELSE [br |-> [br EXCEPT !.rd = limit, !.failAt = -1],
              b |-> Slice(br.data, br.rd, limit),
              err |-> ReadError(br)]

\* bufio.Reader.Discard(n) and io.CopyN(io.Discard, reader, n): skip n bytes,
\* or fail with the error that ended the source before n bytes were skipped.
DiscardNeedsMore(br, n) ==
    IF n < 0
    THEN [br |-> br, err |-> ErrNegativeCount]
    ELSE IF ReadLimit(br) <= br.rd + n
         THEN [br |-> [br EXCEPT !.rd = ReadLimit(br), !.failAt = -1],
               err |-> ReadError(br)]
         ELSE [br |-> [br EXCEPT !.rd = br.rd + n], err |-> Nil]

Discard(br, n) ==
    IF n < 0
    THEN [br |-> br, err |-> ErrNegativeCount]
    ELSE IF ReadLimit(br) < br.rd + n
         THEN [br |-> [br EXCEPT !.rd = ReadLimit(br), !.failAt = -1],
               err |-> ReadError(br)]
         ELSE [br |-> [br EXCEPT !.rd = br.rd + n], err |-> Nil]

----------------------------------------------------------------------------
(* pkg/xstreamencoding: ScannerHelper                                      *)

\* fmt.Errorf("failed to discard offset %d: %w", offset, err)
DiscardError(offset, err) ==
    [msg |-> "failed to discard offset", names |-> offset, wraps |-> err.msg]

NewScannerHelperSkipsOneLess(reader, opts) ==
    LET bh == NewBatchHelper(opts)
        d == IF bh.options.Offset # 0
             THEN Discard(reader, bh.options.Offset - 1)
             ELSE [br |-> reader, err |-> Nil]
    IN  IF d.err # Nil
        THEN [h |-> [state |-> "failed"], br |-> d.br,
              err |-> DiscardError(bh.options.Offset, d.err)]
        ELSE [h |-> [state |-> "ok", batchHelper |-> bh, offset |-> bh.options.Offset],
              br |-> d.br, err |-> Nil]

NewScannerHelperOffsetZero(reader, opts) ==
    LET bh == NewBatchHelper(opts)
        d == IF bh.options.Offset # 0
             THEN Discard(reader, bh.options.Offset)
             ELSE [br |-> reader, err |-> Nil]
    IN  IF d.err # Nil
        THEN [h |-> [state |-> "failed"], br |-> d.br,
              err |-> DiscardError(bh.options.Offset, d.err)]
        ELSE [h |-> [state |-> "ok", batchHelper |-> bh, offset |-> 0],
              br |-> d.br, err |-> Nil]

NewScannerHelper(reader, opts) ==
    LET bh == NewBatchHelper(opts)
        d == IF bh.options.Offset # 0
             THEN Discard(reader, bh.options.Offset)
             ELSE [br |-> reader, err |-> Nil]
    IN  IF d.err # Nil
        THEN [h |-> [state |-> "failed"], br |-> d.br,
              err |-> DiscardError(bh.options.Offset, d.err)]
        ELSE [h |-> [state |-> "ok", batchHelper |-> bh, offset |-> bh.options.Offset],
              br |-> d.br, err |-> Nil]

\* the result of scanInternal: the helper and the reader after the call and
\* the three values returned (b is nil when isNil); hasRecord tells the
\* returns of lines 102 and 105 from those of lines 80 and 86
ScanResult(h, br, hasRecord, b, isNil, flush, err) ==
    [h |-> h, br |-> br, hasRecord |-> hasRecord, b |-> b, isNil |-> isNil,
     flush |-> flush, err |-> err]

scanInternalTrimmedOffset(h, bufReader) ==
    LET r == ReadBytes(bufReader, Delim)
        isEOF == r.err = EOF
        bh == IncrementItems(IncrementBytes(h.batchHelper, Len(r.b)), 1)
        flush == ShouldFlush(bh)
        b == TrimSpace(r.b)
        h2 == [h EXCEPT !.offset = @ + Len(b),
                        !.batchHelper = IF flush THEN Reset(bh) ELSE bh]
    IN  IF r.err # Nil /\ r.err # EOF
        THEN ScanResult(h, r.br, FALSE, <<>>, TRUE, FALSE, r.err)
        ELSE IF Len(r.b) = 0 /\ isEOF
        THEN ScanResult(h, r.br, FALSE, <<>>, TRUE, TRUE, EOF)
        ELSE ScanResult(h2, r.br, TRUE, b, b = <<>>, flush, IF isEOF THEN EOF ELSE Nil)

scanInternalDropsFinal(h, bufReader) ==
    LET r == ReadBytes(bufReader, Delim)
        bh == IncrementItems(IncrementBytes(h.batchHelper, Len(r.b)), 1)
        flush == ShouldFlush(bh)
        h2 == [h EXCEPT !.offset = @ + Len(r.b),
                        !.batchHelper = IF flush THEN Reset(bh) ELSE bh]
        b == TrimSpace(r.b)
    IN  IF r.err # Nil /\ r.err # EOF
        THEN ScanResult(h, r.br, FALSE, <<>>, TRUE, FALSE, r.err)
        ELSE IF r.err = EOF
        THEN ScanResult(h, r.br, FALSE, <<>>, TRUE, TRUE, EOF)
        ELSE ScanResult(h2, r.br, TRUE, b, b = <<>>, flush, Nil)

scanInternalEndResets(h, bufReader) ==
    LET r == ReadBytes(bufReader, Delim)
        isEOF == r.err = EOF
        bh == IncrementItems(IncrementBytes(h.batchHelper, Len(r.b)), 1)
        flush == ShouldFlush(bh)
        h2 == [h EXCEPT !.offset = @ + Len(r.b),
                        !.batchHelper = IF flush THEN Reset(bh) ELSE bh]
        b == TrimSpace(r.b)
    IN  IF r.err # Nil /\ r.err # EOF
        THEN ScanResult(h, r.br, FALSE, <<>>, TRUE, FALSE, r.err)
        ELSE IF Len(r.b) = 0 /\ isEOF
        THEN ScanResult([h EXCEPT !.batchHelper = Reset(@)], r.br, FALSE,
                        <<>>, TRUE, TRUE, EOF)
        ELSE ScanResult(h2, r.br, TRUE, b, b = <<>>, flush, IF isEOF THEN EOF ELSE Nil)

\* scanInternal returning flush = false with io.EOF and no record
scanInternalEndNoFlush(h, bufReader) ==
    LET r == ReadBytes(bufReader, Delim)
        isEOF == r.err = EOF
        bh == IncrementItems(IncrementBytes(h.batchHelper, Len(r.b)), 1)
        flush == ShouldFlush(bh)
        h2 == [h EXCEPT !.offset = @ + Len(r.b),
                        !.batchHelper = IF flush THEN Reset(bh) ELSE bh]
        b == TrimSpace(r.b)
    IN  IF r.err # Nil /\ r.err # EOF
        THEN ScanResult(h, r.br, FALSE, <<>>, TRUE, FALSE, r.err)
        ELSE IF Len(r.b) = 0 /\ isEOF
        THEN ScanResult(h, r.br, FALSE, <<>>, TRUE, FALSE, EOF)
        ELSE ScanResult(h2, r.br, TRUE, b, b = <<>>, flush, IF isEOF THEN EOF ELSE Nil)

\* scanInternal counting the bytes read before it returns the read error
scanInternalErrorAdvances(h, bufReader) ==
    LET r == ReadBytes(bufReader, Delim)
        isEOF == r.err = EOF
        bh == IncrementItems(IncrementBytes(h.batchHelper, Len(r.b)), 1)
        flush == ShouldFlush(bh)
        h2 == [h EXCEPT !.offset = @ + Len(r.b),
                        !.batchHelper = IF flush THEN Reset(bh) ELSE bh]
        b == TrimSpace(r.b)
    IN  IF r.err # Nil /\ r.err # EOF
        THEN ScanResult(h2, r.br, FALSE, <<>>, TRUE, FALSE, r.err)
        ELSE IF Len(r.b) = 0 /\ isEOF
        THEN ScanResult(h, r.br, FALSE, <<>>, TRUE, TRUE, EOF)
        ELSE ScanResult(h2, r.br, TRUE, b, b = <<>>, flush, IF isEOF THEN EOF ELSE Nil)

\* scanInternal without the Reset of line 96
scanInternalKeepsCounters(h, bufReader) ==
    LET r == ReadBytes(bufReader, Delim)
        isEOF == r.err = EOF
        bh == IncrementItems(IncrementBytes(h.batchHelper, Len(r.b)), 1)
        flush == ShouldFlush(bh)
        h2 == [h EXCEPT !.offset = @ + Len(r.b), !.batchHelper = bh]
        b == TrimSpace(r.b)
    IN  IF r.err # Nil /\ r.err # EOF
        THEN ScanResult(h, r.br, FALSE, <<>>, TRUE, FALSE, r.err)
        ELSE IF Len(r.b) = 0 /\ isEOF
        THEN ScanResult(h, r.br, FALSE, <<>>, TRUE, TRUE, EOF)
        ELSE ScanResult(h2, r.br, TRUE, b, b = <<>>, flush, IF isEOF THEN EOF ELSE Nil)

scanInternal(h, bufReader) ==
    LET r == ReadBytes(bufReader, Delim)
        isEOF == r.err = EOF
        bh == IncrementItems(IncrementBytes(h.batchHelper, Len(r.b)), 1)
        flush == ShouldFlush(bh)
        h2 == [h EXCEPT !.offset = @ + Len(r.b),
                        !.batchHelper = IF flush THEN Reset(bh) ELSE bh]
        b == TrimSpace(r.b)
    IN  IF r.err # Nil /\ r.err # EOF
        THEN ScanResult(h, r.br, FALSE, <<>>, TRUE, FALSE, r.err)
        ELSE IF Len(r.b) = 0 /\ isEOF
        THEN ScanResult(h, r.br, FALSE, <<>>, TRUE, TRUE, EOF)
        ELSE ScanResult(h2, r.br, TRUE, b, b = <<>>, flush, IF isEOF THEN EOF ELSE Nil)

\* ScanString: string(internal), flush, err
ScanString(h, bufReader) ==
    LET r == scanInternal(h, bufReader)
    IN  [h |-> r.h, br |-> r.br,
         out |-> [op |-> "ScanString", line |-> r.b, hasRecord |-> r.hasRecord,
                  flush |-> r.flush, err |-> r.err]]

\* ScanBytes: a copy of the bytes, or nil
ScanBytes(h, bufReader) ==
    LET r == scanInternal(h, bufReader)
    IN  [h |-> r.h, br |-> r.br,
         out |-> [op |-> "ScanBytes", line |-> r.b, isNil |-> r.isNil,
                  hasRecord |-> r.hasRecord, flush |-> r.flush, err |-> r.err]]

Offset(h) == h.offset


----------------------------------------------------------------------------
(* Scanner runs: a ScannerHelper built over a source and scanned           *)

\* "line1\nline2\nline3\n"
Line123 == <<108, 105, 110, 101, 49, 10, 108, 105, 110, 101, 50, 10,
             108, 105, 110, 101, 51, 10>>

SmallData == SeqsUpTo(Alphabet, MaxLen)

\* the sources of the runs: every short byte sequence with every failure
\* position, and the sequence of the package's tests
Sources ==
    {NewReader(d, f) : <<d, f>> \in {x \in SmallData \X (-1..MaxLen) : x[2] <= Len(x[1])}}
        \cup {NewReader(Line123, -1)}

InitialOffsets(data) == IF data = Line123 THEN {0, 6} ELSE 0..(MaxLen + 1)

SessionOpts(data) ==
    {<<WithOffset(k)>> : k \in InitialOffsets(data)}
        \cup {<<WithFlushBytes(b), WithFlushItems(i), WithOffset(k)>> :
                <<b, i, k>> \in {0, 3} \X {0, 2} \X InitialOffsets(data)}

InitScanner ==
    /\ batchHelper = NoBatchHelper
    /\ source \in Sources
    /\ helper = [state |-> "new"]
    /\ decoder = NoDecoder
    /\ ret = NoRet
    /\ hist = [initial |-> 0, n |-> 0, raw |-> 0, from |-> 0, dropped |-> 0,
               accBytes |-> 0, accItems |-> 0, flushed |-> FALSE]

CallNewScannerHelper ==
    /\ helper.state = "new"
    /\ \E opts \in SessionOpts(source.data) :
        LET r == NewScannerHelper(source, opts)
        IN  /\ helper' = r.h
            /\ source' = r.br
            /\ ret' = [op |-> "NewScannerHelper", err |-> r.err]
            /\ hist' = [hist EXCEPT !.initial = NewDecoderOptions(opts).Offset,
                                    !.from = source.rd]
    /\ UNCHANGED <<batchHelper, decoder>>

\* the history of a scan call: how many calls returned a record, how many
\* bytes those calls took from the reader, where the reader stood before the
\* call, and how many bytes were taken by calls that returned no record;
\* accBytes and accItems count the bytes taken and the records returned by
\* the calls that returned a record, the last of them included, since the
\* last but one of them that returned flush = true, and flushed tells
\* whether the last of them returned flush = true
ScanHistory(r) ==
    [hist EXCEPT !.n = IF r.out.hasRecord THEN @ + 1 ELSE @,
                 !.raw = IF r.out.hasRecord THEN @ + (r.br.rd - source.rd) ELSE @,
                 !.from = source.rd,
                 !.dropped = IF r.out.hasRecord THEN @ ELSE @ + (r.br.rd - source.rd),
                 !.accBytes = IF ~r.out.hasRecord THEN @
                              ELSE (IF hist.flushed THEN 0 ELSE @) + (r.br.rd - source.rd),
                 !.accItems = IF ~r.out.hasRecord THEN @
                              ELSE (IF hist.flushed THEN 0 ELSE @) + 1,
                 !.flushed = IF r.out.hasRecord THEN r.out.flush ELSE @]

CallScanString ==
    /\ helper.state = "ok"
    /\ \E r \in {ScanString(helper, source)} :
           /\ helper' = r.h
           /\ source' = r.br
           /\ ret' = r.out
           /\ hist' = ScanHistory(r)
    /\ UNCHANGED <<batchHelper, decoder>>

CallScanBytes ==
    /\ helper.state = "ok"
    /\ \E r \in {ScanBytes(helper, source)} :
           /\ helper' = r.h
           /\ source' = r.br
           /\ ret' = r.out
           /\ hist' = ScanHistory(r)
    /\ UNCHANGED <<batchHelper, decoder>>

NextScanner ==
    \/ CallNewScannerHelper
    \/ CallScanString
    \/ CallScanBytes

SpecScanner == InitScanner /\ [][NextScanner]_vars


----------------------------------------------------------------------------
(* Tracker and scanner runs together                                       *)

InitFlush == InitBatch \/ InitScanner

NextFlush == NextBatch \/ NextScanner

SpecFlush == InitFlush /\ [][NextFlush]_vars

----------------------------------------------------------------------------
(* The text codec: separators, record transformation, bufio.Scanner        *)

\* r.unmarshalingSeparator: nil, a literal byte string, or one or more
\* repetitions of one byte (such as \n+).  Every pattern of the model
\* matches non-empty strings only.
NoPattern == [kind |-> "nil"]
Literal(bs) == [kind |-> "literal", bytes |-> bs]
OneOrMore(c) == [kind |-> "plus", byte |-> c]

\* does the pattern match data[i:...] within data[:to], at offset i
MatchesAt(re, data, i, to) ==
    IF re.kind = "literal"
    THEN /\ i + Len(re.bytes) <= to
         /\ \A j \in 1..Len(re.bytes) : data[i + j] = re.bytes[j]
    ELSE i + 1 <= to /\ data[i + 1] = re.byte

RECURSIVE FirstMatch(_, _, _, _)
FirstMatch(re, data, i, to) ==
    IF i >= to THEN -1
    ELSE IF MatchesAt(re, data, i, to) THEN i
    ELSE FirstMatch(re, data, i + 1, to)

RECURSIVE RunEnd(_, _, _, _)
RunEnd(c, data, i, to) ==
    IF i < to /\ data[i + 1] = c THEN RunEnd(c, data, i + 1, to) ELSE i

\* regexp.FindIndex on data[from:to]: the leftmost match, as offsets into
\* that slice (found = FALSE: a nil loc)
FindIndex(re, data, from, to) ==
    LET loc(lo) ==
            IF lo < 0 THEN [found |-> FALSE, lo |-> 0, hi |-> 0]
            ELSE [found |-> TRUE, lo |-> lo - from,
                  hi |-> (IF re.kind = "literal" THEN lo + Len(re.bytes)
                          ELSE RunEnd(re.byte, data, lo, to)) - from]
    IN  Apply(loc, FirstMatch(re, data, from, to))

\* what a split function returns: advance, token (nil when ~hasToken), and
\* what it adds to offsetTracker
SplitResult(advance, hasToken, token, add) ==
    [advance |-> advance, hasToken |-> hasToken, token |-> token, add |-> add]

\* splitPattern adding the start of the match to offsetTracker
splitPatternAddsMatchStart(re, data, from, to, atEOF) ==
    LET found(loc) ==
            IF loc.found
            THEN SplitResult(loc.hi, TRUE, Slice(data, from, from + loc.lo), loc.lo)
            ELSE IF atEOF
            THEN SplitResult(to - from, TRUE, Slice(data, from, to), to - from)
            ELSE SplitResult(0, FALSE, <<>>, 0)
    IN  IF atEOF /\ to - from = 0
        THEN SplitResult(0, FALSE, <<>>, 0)
        ELSE Apply(found, FindIndex(re, data, from, to))

\* the split function with a separator, on data[from:to]
splitPattern(re, data, from, to, atEOF) ==
    LET found(loc) ==
            IF loc.found
            THEN SplitResult(loc.hi, TRUE, Slice(data, from, from + loc.lo), loc.hi)
            ELSE IF atEOF
            THEN SplitResult(to - from, TRUE, Slice(data, from, to), to - from)
            ELSE SplitResult(0, FALSE, <<>>, 0)
    IN  IF atEOF /\ to - from = 0
        THEN SplitResult(0, FALSE, <<>>, 0)
        ELSE Apply(found, FindIndex(re, data, from, to))

\* the split function without separator, on data[from:to]
splitAll(data, from, to, atEOF) ==
    IF atEOF /\ to - from = 0
    THEN SplitResult(0, FALSE, <<>>, 0)
    ELSE IF atEOF
    THEN SplitResult(to - from, TRUE, Slice(data, from, to), to - from)
    ELSE SplitResult(0, FALSE, <<>>, 0)

split(r, data, from, to, atEOF) ==
    IF r.unmarshalingSeparator # NoPattern
    THEN splitPattern(r.unmarshalingSeparator, data, from, to, atEOF)
    ELSE splitAll(data, from, to, atEOF)

\* a reader that hands over at most chunk bytes per Read
NewChunkReader(data, failAt, chunk) ==
    [data |-> data, rd |-> 0, failAt |-> failAt, chunk |-> chunk]

\* io.Reader.Read
Read(br) ==
    LET n == Min(br.chunk, ReadLimit(br) - br.rd)
    IN  IF br.failAt = br.rd
        THEN [n |-> 0, err |-> ErrSource, br |-> [br EXCEPT !.failAt = -1]]
        ELSE IF n = 0
        THEN [n |-> 0, err |-> EOF, br |-> br]
        ELSE [n |-> n, err |-> Nil, br |-> [br EXCEPT !.rd = @ + n]]

\* bufio.Scanner: the buffer holds data[start:end] of the source, err is the
\* sticky error of the reader
NewScanner(reader) == [start |-> reader.rd, end |-> reader.rd, err |-> Nil]

\* bufio.Scanner.Err
Err(s) == IF s.err = EOF THEN Nil ELSE s.err

\* Scan with a split function that assigns to offsetTracker what it should
\* add to it
RECURSIVE ScanSetsOffset(_, _, _, _)
ScanSetsOffset(r, s, offsetTracker, br) ==
    LET more(rd) ==
            ScanSetsOffset(r, [s EXCEPT !.end = @ + rd.n, !.err = rd.err],
                           offsetTracker, rd.br)
        scan(t) ==
            IF (s.end > s.start \/ s.err # Nil) /\ t.hasToken
            THEN [ok |-> TRUE, token |-> t.token,
                  s |-> [s EXCEPT !.start = @ + t.advance],
                  offsetTracker |-> t.add, br |-> br]
            ELSE IF s.err # Nil
            THEN [ok |-> FALSE, token |-> <<>>, s |-> [s EXCEPT !.start = s.end],
                  offsetTracker |-> offsetTracker, br |-> br]
            ELSE Apply(more, Read(br))
    IN  Apply(scan, split(r, br.data, s.start, s.end, s.err # Nil))

\* bufio.Scanner.Scan with the split function of the codec: ok, the token,
\* and the scanner, offsetTracker and reader after the call
RECURSIVE Scan(_, _, _, _)
Scan(r, s, offsetTracker, br) ==
    LET more(rd) ==
            Scan(r, [s EXCEPT !.end = @ + rd.n, !.err = rd.err], offsetTracker, rd.br)
        scan(t) ==
            IF (s.end > s.start \/ s.err # Nil) /\ t.hasToken
            THEN [ok |-> TRUE, token |-> t.token,
                  s |-> [s EXCEPT !.start = @ + t.advance],
                  offsetTracker |-> offsetTracker + t.add, br |-> br]
            ELSE IF s.err # Nil
            THEN [ok |-> FALSE, token |-> <<>>, s |-> [s EXCEPT !.start = s.end],
                  offsetTracker |-> offsetTracker, br |-> br]
            ELSE Apply(more, Read(br))
    IN  Apply(scan, split(r, br.data, s.start, s.end, s.err # Nil))

----------------------------------------------------------------------------
(* textutils.DecodeAsString: the per-record transformation.  "latin1"      *)
(* decodes ISO 8859-1 into UTF-8 (byte 255 becomes the two bytes 195 191)  *)
(* and never fails; "strict" returns the bytes unchanged and fails on the  *)
(* byte 255, which no UTF-8 text contains.                                 *)

ErrDecode == BaseError("decode error")

RECURSIVE Latin1ToUTF8(_)
Latin1ToUTF8(b) ==
    IF b = <<>> THEN <<>>
    ELSE IF Len(b) = 1 THEN (IF b[1] = 255 THEN <<195, 191>> ELSE b)
    ELSE Latin1ToUTF8(SubSeq(b, 1, Len(b) \div 2))
            \o Latin1ToUTF8(SubSeq(b, Len(b) \div 2 + 1, Len(b)))

DecodeAsString(dec, b) ==
    IF dec = "strict"
    THEN IF \E i \in 1..Len(b) : b[i] = 255
         THEN [str |-> <<>>, err |-> ErrDecode]
         ELSE [str |-> b, err |-> Nil]
    ELSE [str |-> Latin1ToUTF8(b), err |-> Nil]

----------------------------------------------------------------------------
(* textencodingextension: textLogCodec.NewLogsDecoder                      *)

\* a log record is its body; AppendEmpty() appends a record with empty body
EmptyRecord == [body |-> <<>>]

NewLogsDecoder(r, reader, options) ==
    LET built(bh, d) ==
            IF d.err # Nil
            THEN [d |-> [state |-> "failed", codec |-> r], br |-> d.br, err |-> d.err]
            ELSE [d |-> [state |-> "ok", codec |-> r, batchHelper |-> bh,
                         offsetTracker |-> bh.options.Offset, s |-> NewScanner(d.br)],
                  br |-> d.br, err |-> Nil]
        skip(bh) ==
            built(bh, IF bh.options.Offset > 0
                      THEN Discard(reader, bh.options.Offset)
                      ELSE [br |-> reader, err |-> Nil])
    IN  Apply(skip, NewBatchHelper(options))

\* offsetF
offsetF(d) == d.offsetTracker

\* One pass of the loop of decodeF.  L is the decoder, the reader and the
\* batch p built so far; returned tells that decodeF has returned, with err.
decodeStepEOFWithBatch(L) ==
    LET pass(sc, d1, decoded, bh) ==
            IF ~sc.ok
            THEN [d |-> d1, br |-> sc.br, p |-> L.p, returned |-> TRUE,
                  err |-> IF Err(sc.s) # Nil THEN Err(sc.s) ELSE EOF]
            ELSE IF decoded.err # Nil
            THEN [d |-> d1, br |-> sc.br, p |-> Append(L.p, EmptyRecord),
                  returned |-> TRUE, err |-> decoded.err]
            ELSE IF ShouldFlush(bh)
            THEN [d |-> [d1 EXCEPT !.batchHelper = Reset(bh)], br |-> sc.br,
                  p |-> Append(L.p, [body |-> decoded.str]),
                  returned |-> TRUE, err |-> Nil]
            ELSE [d |-> [d1 EXCEPT !.batchHelper = bh], br |-> sc.br,
                  p |-> Append(L.p, [body |-> decoded.str]),
                  returned |-> FALSE, err |-> Nil]
        token(sc, d1) ==
            pass(sc, d1, DecodeAsString(L.d.codec.decoder, sc.token),
                 IncrementBytes(IncrementItems(d1.batchHelper, 1), Len(sc.token)))
        scanned(sc) ==
            token(sc, [L.d EXCEPT !.s = sc.s, !.offsetTracker = sc.offsetTracker])
    IN  IF L.returned THEN L
        ELSE Apply(scanned, Scan(L.d.codec, L.d.s, L.d.offsetTracker, L.br))

\* decodeStep returning an empty batch with the error of DecodeAsString
decodeStepErrorDiscards(L) ==
    LET pass(sc, d1, decoded, bh) ==
            IF ~sc.ok
            THEN [d |-> d1, br |-> sc.br, p |-> L.p, returned |-> TRUE,
                  err |-> IF Err(sc.s) # Nil THEN Err(sc.s)
                          ELSE IF Len(L.p) = 0 THEN EOF ELSE Nil]
            ELSE IF decoded.err # Nil
            THEN [d |-> d1, br |-> sc.br, p |-> <<>>,
                  returned |-> TRUE, err |-> decoded.err]
            ELSE IF ShouldFlush(bh)
            THEN [d |-> [d1 EXCEPT !.batchHelper = Reset(bh)], br |-> sc.br,
                  p |-> Append(L.p, [body |-> decoded.str]),
                  returned |-> TRUE, err |-> Nil]
            ELSE [d |-> [d1 EXCEPT !.batchHelper = bh], br |-> sc.br,
                  p |-> Append(L.p, [body |-> decoded.str]),
                  returned |-> FALSE, err |-> Nil]
        token(sc, d1) ==
            pass(sc, d1, DecodeAsString(L.d.codec.decoder, sc.token),
                 IncrementBytes(IncrementItems(d1.batchHelper, 1), Len(sc.token)))
        scanned(sc) ==
            token(sc, [L.d EXCEPT !.s = sc.s, !.offsetTracker = sc.offsetTracker])
    IN  IF L.returned THEN L
        ELSE Apply(scanned, Scan(L.d.codec, L.d.s, L.d.offsetTracker, L.br))

\* decodeStep returning, on a flush, the batch without its last record
decodeStepFlushDropsRecord(L) ==
    LET pass(sc, d1, decoded, bh) ==
            IF ~sc.ok
            THEN [d |-> d1, br |-> sc.br, p |-> L.p, returned |-> TRUE,
                  err |-> IF Err(sc.s) # Nil THEN Err(sc.s)
                          ELSE IF Len(L.p) = 0 THEN EOF ELSE Nil]
            ELSE IF decoded.err # Nil
            THEN [d |-> d1, br |-> sc.br, p |-> Append(L.p, EmptyRecord),
                  returned |-> TRUE, err |-> decoded.err]
            ELSE IF ShouldFlush(bh)
            THEN [d |-> [d1 EXCEPT !.batchHelper = Reset(bh)], br |-> sc.br,
                  p |-> L.p, returned |-> TRUE, err |-> Nil]
            ELSE [d |-> [d1 EXCEPT !.batchHelper = bh], br |-> sc.br,
                  p |-> Append(L.p, [body |-> decoded.str]),
                  returned |-> FALSE, err |-> Nil]
        token(sc, d1) ==
            pass(sc, d1, DecodeAsString(L.d.codec.decoder, sc.token),
                 IncrementBytes(IncrementItems(d1.batchHelper, 1), Len(sc.token)))
        scanned(sc) ==
            token(sc, [L.d EXCEPT !.s = sc.s, !.offsetTracker = sc.offsetTracker])
    IN  IF L.returned THEN L
        ELSE Apply(scanned, Scan(L.d.codec, L.d.s, L.d.offsetTracker, L.br))

\* a decodeStep that reports an exhausted source as an empty batch
decodeStepEndless(L) ==
    LET pass(sc, d1, decoded, bh) ==
            IF ~sc.ok
            THEN [d |-> d1, br |-> sc.br, p |-> L.p, returned |-> TRUE,
                  err |-> IF Err(sc.s) # Nil THEN Err(sc.s) ELSE Nil]
            ELSE IF decoded.err # Nil
            THEN [d |-> d1, br |-> sc.br, p |-> Append(L.p, EmptyRecord),
                  returned |-> TRUE, err |-> decoded.err]
            ELSE IF ShouldFlush(bh)
            THEN [d |-> [d1 EXCEPT !.batchHelper = Reset(bh)], br |-> sc.br,
                  p |-> Append(L.p, [body |-> decoded.str]),
                  returned |-> TRUE, err |-> Nil]
            ELSE [d |-> [d1 EXCEPT !.batchHelper = bh], br |-> sc.br,
                  p |-> Append(L.p, [body |-> decoded.str]),
                  returned |-> FALSE, err |-> Nil]
        token(sc, d1) ==
            pass(sc, d1, DecodeAsString(L.d.codec.decoder, sc.token),
                 IncrementBytes(IncrementItems(d1.batchHelper, 1), Len(sc.token)))
        scanned(sc) ==
            token(sc, [L.d EXCEPT !.s = sc.s, !.offsetTracker = sc.offsetTracker])
    IN  IF L.returned THEN L
        ELSE Apply(scanned, Scan(L.d.codec, L.d.s, L.d.offsetTracker, L.br))

decodeStep(L) ==
    LET pass(sc, d1, decoded, bh) ==
            IF ~sc.ok
            THEN [d |-> d1, br |-> sc.br, p |-> L.p, returned |-> TRUE,
                  err |-> IF Err(sc.s) # Nil THEN Err(sc.s)
                          ELSE IF Len(L.p) = 0 THEN EOF ELSE Nil]
            ELSE IF decoded.err # Nil
            THEN [d |-> d1, br |-> sc.br, p |-> Append(L.p, EmptyRecord),
                  returned |-> TRUE, err |-> decoded.err]
            ELSE IF ShouldFlush(bh)
            THEN [d |-> [d1 EXCEPT !.batchHelper = Reset(bh)], br |-> sc.br,
                  p |-> Append(L.p, [body |-> decoded.str]),
                  returned |-> TRUE, err |-> Nil]
            ELSE [d |-> [d1 EXCEPT !.batchHelper = bh], br |-> sc.br,
                  p |-> Append(L.p, [body |-> decoded.str]),
                  returned |-> FALSE, err |-> Nil]
        token(sc, d1) ==
            pass(sc, d1, DecodeAsString(L.d.codec.decoder, sc.token),
                 IncrementBytes(IncrementItems(d1.batchHelper, 1), Len(sc.token)))
        scanned(sc) ==
            token(sc, [L.d EXCEPT !.s = sc.s, !.offsetTracker = sc.offsetTracker])
    IN  IF L.returned THEN L
        ELSE Apply(scanned, Scan(L.d.codec, L.d.s, L.d.offsetTracker, L.br))

\* n passes of the loop: the first half of them, then the second half from
\* where the first half ended (the singleton set makes TLC finish the first
\* half before it starts the second)
RECURSIVE decodeLoop(_, _)
decodeLoop(L, n) ==
    IF n = 0 THEN L
    ELSE IF n = 1 THEN decodeStep(L)
    ELSE CHOOSE end \in {decodeLoop(mid, n - (n \div 2)) :
                            mid \in {decodeLoop(L, n \div 2)}} : TRUE

\* decodeF: every pass but the last takes a token of at least one byte off
\* the source, so the loop has returned after Len(data) + 1 passes
decodeF(d, br) ==
    LET done(L) ==
            [d |-> L.d, br |-> L.br, logs |-> L.p, err |-> L.err, returned |-> L.returned]
    IN  Apply(done, decodeLoop([d |-> d, br |-> br, p |-> <<>>, returned |-> FALSE,
                                err |-> Nil], Len(br.data) + 1))

\* LogsDecoderAdapter.DecodeLogs
DecodeLogs(d, br) == decodeF(d, br)

\* bytes.NewReader(buf): a reader without failure that hands over all the
\* bytes it is asked for
NewBytesReader(buf) == NewChunkReader(buf, -1, IF buf = <<>> THEN 1 ELSE Len(buf))

\* an UnmarshalLogs that returns the empty batch of an exhausted buffer with a
\* nil error
UnmarshalLogsHidesEOF(r, buf) ==
    LET decoded(l) ==
            IF l.err \notin {Nil, EOF}
            THEN [logs |-> <<>>, err |-> l.err, d |-> l.d, br |-> l.br]
            ELSE [logs |-> l.logs, err |-> Nil, d |-> l.d, br |-> l.br]
        built(n) ==
            IF n.err # Nil THEN [logs |-> <<>>, err |-> n.err, d |-> n.d, br |-> n.br]
            ELSE Apply(decoded, DecodeLogs(n.d, n.br))
    IN  Apply(built, NewLogsDecoder(r, NewBytesReader(buf), <<WithOffset(0), WithFlushBytes(0)>>))

UnmarshalLogs(r, buf) ==
    LET decoded(l) ==
            IF l.err # Nil THEN [logs |-> <<>>, err |-> l.err, d |-> l.d, br |-> l.br]
            ELSE [logs |-> l.logs, err |-> Nil, d |-> l.d, br |-> l.br]
        built(n) ==
            IF n.err # Nil THEN [logs |-> <<>>, err |-> n.err, d |-> n.d, br |-> n.br]
            ELSE Apply(decoded, DecodeLogs(n.d, n.br))
    IN  Apply(built, NewLogsDecoder(r, NewBytesReader(buf), <<WithOffset(0), WithFlushBytes(0)>>))

----------------------------------------------------------------------------
(* Decoder runs: a text LogsDecoder built over a source and drained        *)

Separators == {NoPattern, Literal(<<10>>), OneOrMore(10), Literal(<<97, 10>>)}

Codecs ==
    {[unmarshalingSeparator |-> sep, decoder |-> dec] :
        <<sep, dec>> \in Separators \X {"latin1", "strict"}}

DecoderData == SeqsUpTo(DecAlphabet, MaxDecLen)

\* the sources of the runs: every short byte sequence with every failure
\* position, handed over one byte per Read or all at once
DecoderSources ==
    {NewChunkReader(x[1], x[2], x[3]) :
        x \in {y \in DecoderData \X (-1..MaxDecLen) \X {1, MaxDecLen + 1} : y[2] <= Len(y[1])}}

DecoderOpts ==
    {<<WithOffset(k)>> : k \in 0..(MaxDecLen + 1)}
        \cup {<<WithFlushBytes(x[1][1]), WithFlushItems(x[1][2]), WithOffset(x[2])>> :
                x \in {<<0, 0>>, <<2, 0>>, <<0, 2>>, <<0, 1>>} \X (0..(MaxDecLen + 1))}

InitDecoder ==
    /\ batchHelper = NoBatchHelper
    /\ source \in DecoderSources
    /\ helper = NoHelper
    /\ \E r \in Codecs : decoder = [state |-> "new", codec |-> r]
    /\ ret = NoRet
    /\ hist = [initial |-> 0, out |-> <<>>, failed |-> FALSE]

CallNewLogsDecoder ==
    /\ decoder.state = "new"
    /\ \E options \in DecoderOpts :
        \E r \in {NewLogsDecoder(decoder.codec, source, options)} :
            /\ decoder' = r.d
            /\ source' = r.br
            /\ ret' = [op |-> "NewLogsDecoder", err |-> r.err]
            /\ hist' = [hist EXCEPT !.initial = NewDecoderOptions(options).Offset]
    /\ UNCHANGED <<batchHelper, helper>>

CallDecodeLogs ==
    /\ decoder.state = "ok"
    /\ \E r \in {DecodeLogs(decoder, source)} :
           /\ decoder' = r.d
           /\ source' = r.br
           /\ ret' = [op |-> "DecodeLogs", logs |-> r.logs, err |-> r.err]
           /\ hist' = [hist EXCEPT !.out = @ \o r.logs,
                                   !.failed = @ \/ r.err \notin {Nil, EOF}]
    /\ UNCHANGED <<batchHelper, helper>>

NextDecoder ==
    \/ CallNewLogsDecoder
    \/ CallDecodeLogs

SpecDecoder == InitDecoder /\ [][NextDecoder]_vars

----------------------------------------------------------------------------
(* Construction runs: scanner and decoder sessions together                *)

InitSession == InitScanner \/ InitDecoder

NextSession == NextScanner \/ NextDecoder

SpecSession == InitSession /\ [][NextSession]_vars

----------------------------------------------------------------------------
(* Codec runs: UnmarshalLogs of in-memory buffers                          *)

\* defaultFlushItems + 1 records "a", each followed by a newline
ManyTokens == [i \in 1..(2 * (defaultFlushItems + 1)) |-> IF i % 2 = 1 THEN 97 ELSE 10]

Buffers == DecoderData \cup {ManyTokens}

\* the buffer of the run is hist.buf
InitCodec ==
    /\ batchHelper = NoBatchHelper
    /\ source = NoSource
    /\ helper = NoHelper
    /\ \E r \in Codecs : decoder = [state |-> "codec", codec |-> r]
    /\ ret = NoRet
    /\ \E buf \in Buffers : hist = [buf |-> buf, left |-> <<>>]

\* hist.left: the records that the decoder built by UnmarshalLogs would
\* return on one more DecodeLogs call
CallUnmarshalLogs ==
    /\ decoder.state = "codec"
    /\ \E r \in {UnmarshalLogs(decoder.codec, hist.buf)} :
           /\ ret' = [op |-> "UnmarshalLogs", logs |-> r.logs, err |-> r.err]
           /\ hist' = [hist EXCEPT !.left = IF r.d.state = "ok"
                                            THEN DecodeLogs(r.d, r.br).logs
                                            ELSE <<>>]
    /\ UNCHANGED <<batchHelper, source, helper, decoder>>

NextCodec == CallUnmarshalLogs

SpecCodec == InitCodec /\ [][NextCodec]_vars

----------------------------------------------------------------------------
(* Resume runs: decoder sessions over sources that never fail a read and   *)
(* hand over one byte, two bytes or all the bytes per Read                 *)

ResumeSources ==
    {NewChunkReader(x[1], -1, x[2]) :
        x \in SeqsUpTo({10, 97}, MaxResumeLen) \X {1, 2, MaxResumeLen + 1}}

InitResume ==
    /\ batchHelper = NoBatchHelper
    /\ source \in ResumeSources
    /\ helper = NoHelper
    /\ \E r \in Codecs : decoder = [state |-> "new", codec |-> r]
    /\ ret = NoRet
    /\ hist = [initial |-> 0, out |-> <<>>, failed |-> FALSE]

NextResume == NextDecoder

SpecResume == InitResume /\ [][NextResume]_vars

----------------------------------------------------------------------------
(* Finite runs: scanner and decoder sessions over sources whose reads do   *)
(* not fail, with a caller that keeps calling                              *)

\* the sources of the scanner sessions and of the decoder sessions
FiniteSources == {NewReader(d, -1) : d \in SeqsUpTo(Alphabet, MaxFiniteLen)}

FiniteChunkSources ==
    {NewChunkReader(x[1], -1, x[2]) :
        x \in SeqsUpTo({10, 97}, MaxFiniteLen) \X {1, 2, MaxFiniteLen + 1}}

InitFinite ==
    /\ batchHelper = NoBatchHelper
    /\ ret = NoRet
    /\ \/ /\ source \in FiniteSources
          /\ helper = [state |-> "new"]
          /\ decoder = NoDecoder
          /\ hist = [initial |-> 0, n |-> 0, raw |-> 0, from |-> 0, dropped |-> 0,
                     accBytes |-> 0, accItems |-> 0, flushed |-> FALSE]
       \/ /\ source \in FiniteChunkSources
          /\ helper = NoHelper
          /\ \E r \in Codecs : decoder = [state |-> "new", codec |-> r]
          /\ hist = [initial |-> 0, out |-> <<>>, failed |-> FALSE]

NextFinite == NextScanner \/ NextDecoder

\* the caller's loop: it scans, or calls DecodeLogs, again for as long as the
\* call is possible
SpecFinite ==
    /\ InitFinite
    /\ [][NextFinite]_vars
    /\ WF_vars(CallScanString \/ CallScanBytes)
    /\ WF_vars(CallDecodeLogs)

----------------------------------------------------------------------------
(* Text runs: decoder sessions and UnmarshalLogs calls together            *)

InitText == InitDecoder \/ InitCodec

NextText == NextDecoder \/ NextCodec

SpecText == InitText /\ [][NextText]_vars

----------------------------------------------------------------------------
(* textencodingextension: textLogCodec.MarshalLogs.  A plog.Logs is a      *)
(* sequence of ResourceLogs, each a sequence of ScopeLogs, each a sequence *)
(* of log records; the body of a record is a string value, which AsString  *)
(* returns as it is.                                                       *)

\* the body of the innermost loop, with a separator after every record
marshalRecordTrailing(acc, sep, lr) ==
    [b |-> acc.b \o lr.body \o sep, appendedLogRecord |-> TRUE]

\* the body of the innermost loop: acc is b and appendedLogRecord
marshalRecord(acc, sep, lr) ==
    [b |-> (IF acc.appendedLogRecord THEN acc.b \o sep ELSE acc.b) \o lr.body,
     appendedLogRecord |-> TRUE]

\* the loop over sl.LogRecords(), from index k
RECURSIVE marshalRecords(_, _, _, _)
marshalRecords(acc, sep, sl, k) ==
    IF k > Len(sl) THEN acc
    ELSE marshalRecords(marshalRecord(acc, sep, sl[k]), sep, sl, k + 1)

\* the loop over rl.ScopeLogs(), from index j
RECURSIVE marshalScopes(_, _, _, _)
marshalScopes(acc, sep, rl, j) ==
    IF j > Len(rl) THEN acc
    ELSE marshalScopes(marshalRecords(acc, sep, rl[j], 1), sep, rl, j + 1)

\* the loop over ld.ResourceLogs(), from index i
RECURSIVE marshalResources(_, _, _, _)
marshalResources(acc, sep, ld, i) ==
    IF i > Len(ld) THEN acc
    ELSE marshalResources(marshalScopes(acc, sep, ld[i], 1), sep, ld, i + 1)

MarshalLogs(r, ld) ==
    [b |-> marshalResources([b |-> <<>>, appendedLogRecord |-> FALSE],
                            r.marshalingSeparator, ld, 1).b,
     err |-> Nil]

----------------------------------------------------------------------------
(* Marshal runs: MarshalLogs of enumerated batches                         *)

\* the steps that build a plog.Logs: ResourceLogs().AppendEmpty(),
\* ScopeLogs().AppendEmpty() on the last resource, and
\* LogRecords().AppendEmpty() with a body on its last scope
Builders ==
    {[kind |-> "resource"], [kind |-> "scope"]}
        \cup {[kind |-> "record", body |-> b] : b \in {<<>>, <<97>>}}

CanAppend(ld, e) ==
    IF e.kind = "resource" THEN TRUE
    ELSE IF e.kind = "scope" THEN ld # <<>>
    ELSE ld # <<>> /\ ld[Len(ld)] # <<>>

AppendEmpty(ld, e) ==
    IF e.kind = "resource" THEN Append(ld, <<>>)
    ELSE IF e.kind = "scope"
    THEN [ld EXCEPT ![Len(ld)] = Append(@, <<>>)]
    ELSE [ld EXCEPT ![Len(ld)] =
            [@ EXCEPT ![Len(@)] = Append(@, [body |-> e.body])]]

\* the batches that at most n builder steps make
RECURSIVE LogsUpTo(_)
LogsUpTo(n) ==
    IF n = 0 THEN {<<>>}
    ELSE LogsUpTo(n - 1)
            \cup {AppendEmpty(x[1], x[2]) :
                    x \in {y \in LogsUpTo(n - 1) \X Builders : CanAppend(y[1], y[2])}}

MarshalingSeparators == {<<>>, <<10>>, <<44, 32>>}

MarshalCodecs ==
    {[marshalingSeparator |-> x[1], unmarshalingSeparator |-> x[2], decoder |-> "strict"] :
        x \in MarshalingSeparators \X {NoPattern, Literal(<<10>>)}}

\* the batch of the run is hist.ld
InitMarshal ==
    /\ batchHelper = NoBatchHelper
    /\ source = NoSource
    /\ helper = NoHelper
    /\ \E r \in MarshalCodecs : decoder = [state |-> "codec", codec |-> r]
    /\ ret = NoRet
    /\ \E ld \in LogsUpTo(MaxEvents) : hist = [ld |-> ld]

CallMarshalLogs ==
    /\ decoder.state = "codec"
    /\ \E r \in {MarshalLogs(decoder.codec, hist.ld)} :
           ret' = [op |-> "MarshalLogs", b |-> r.b, err |-> r.err]
    /\ UNCHANGED <<batchHelper, source, helper, decoder, hist>>

NextMarshal == CallMarshalLogs

SpecMarshal == InitMarshal /\ [][NextMarshal]_vars

----------------------------------------------------------------------------
(* Option runs: NewDecoderOptions of enumerated option lists; the list of  *)
(* the run is hist.opts                                                    *)

OptionValues == {0, 2, defaultFlushItems}

Options ==
    {WithFlushBytes(v) : v \in OptionValues}
        \cup {WithFlushItems(v) : v \in OptionValues}
        \cup {WithOffset(v) : v \in OptionValues}

InitOptions ==
    /\ batchHelper = NoBatchHelper
    /\ source = NoSource
    /\ helper = NoHelper
    /\ decoder = NoDecoder
    /\ ret = NoRet
    /\ \E opts \in SeqsUpTo(Options, MaxOpts) : hist = [opts |-> opts]

CallNewDecoderOptions ==
    /\ ret' = [op |-> "NewDecoderOptions", options |-> NewDecoderOptions(hist.opts)]
    /\ UNCHANGED <<batchHelper, source, helper, decoder, hist>>

NextOptions == CallNewDecoderOptions

SpecOptions == InitOptions /\ [][NextOptions]_vars

----------------------------------------------------------------------------
(* Reference definitions of the properties: raw records of a byte sequence *)

\* the end of the raw record that starts at byte from: just after the first
\* newline at or after from, or the end of the data
RawEnd(data, from) ==
    LET hits == {i \in (from + 1)..Len(data) : data[i] = 10}
    IN  IF hits = {} THEN Len(data)
        ELSE CHOOSE x \in hits : \A y \in hits : x <= y

RecordAt(data, from) == Slice(data, from, RawEnd(data, from))

RECURSIVE RecordEnd(_, _, _)
RecordEnd(data, from, n) ==
    IF n = 0 THEN from ELSE RecordEnd(data, RawEnd(data, from), n - 1)

ThresholdReached(options, bytes, items) ==
    \/ options.FlushBytes > 0 /\ bytes >= options.FlushBytes
    \/ options.FlushItems > 0 /\ items >= options.FlushItems

IsScan == ret.op \in {"ScanString", "ScanBytes"}

----------------------------------------------------------------------------
(* C1: for any sequence of IncrementBytes, IncrementItems and Reset, the   *)
(* counters are the sums of the increments since construction or the last  *)
(* Reset, and ShouldFlush() returns true iff an enabled threshold is met   *)
(* or exceeded by them (so it is false right after Reset).                 *)
C1_ShouldFlushIff ==
    batchHelper # NoBatchHelper =>
        /\ batchHelper.currentBytes = hist.bytes
        /\ batchHelper.currentItems = hist.items
        /\ ret.op = "ShouldFlush" =>
              (ret.flush <=> ThresholdReached(batchHelper.options, hist.bytes, hist.items))

C1_Witness ==
    /\ ret.op = "ShouldFlush"
    /\ ret.flush
    /\ batchHelper.options.FlushBytes = 5
    /\ batchHelper.options.FlushItems = 5
    /\ hist.bytes = 5
    /\ hist.items < 5

----------------------------------------------------------------------------
(* C2: after N scans that returned a record, Offset() is InitialOffset     *)
(* plus the raw byte lengths of the N records, newline included and before *)
(* trimming; the record returned is the trimmed raw record.                *)
C2_OffsetIsRawBytes ==
    helper.state = "ok" =>
        /\ Offset(helper) = hist.initial + hist.raw
        /\ hist.dropped = 0 =>
              Offset(helper) = RecordEnd(source.data, hist.initial, hist.n)
        /\ (IsScan /\ ret.hasRecord) =>
              ret.line = TrimSpace(Slice(source.data, hist.from, source.rd))

C2_Witness ==
    /\ helper.state = "ok"
    /\ IsScan
    /\ ret.hasRecord
    /\ hist.n >= 2
    /\ hist.initial > 0
    /\ Len(ret.line) + 1 < source.rd - hist.from

----------------------------------------------------------------------------
(* C3: idempotent resume of the line scanner.                              *)

\* what the calls of a session return from a given point on, up to and
\* including the call that returns io.EOF: record, error and Offset() after
RECURSIVE ScanRest(_, _)
ScanRest(h, br) ==
    LET r == ScanString(h, br)
        e == [line |-> r.out.line, hasRecord |-> r.out.hasRecord,
              err |-> r.out.err, offset |-> Offset(r.h)]
    IN  IF r.out.err = EOF THEN <<e>> ELSE <<e>> \o ScanRest(r.h, r.br)

\* a new ScannerHelper over the same input, with the thresholds of the
\* session and InitialOffset = Offset() of the session
Resumed ==
    NewScannerHelper(NewReader(source.data, source.failAt),
                     <<WithFlushBytes(helper.batchHelper.options.FlushBytes),
                       WithFlushItems(helper.batchHelper.options.FlushItems),
                       WithOffset(Offset(helper))>>)

ResumeReproduces ==
    /\ Resumed.err = Nil
    /\ ScanRest(Resumed.h, Resumed.br) = ScanRest(helper, source)

(* C3 as stated: at any point of any session, the resumed session returns  *)
(* the records and offsets the original returns by continuing.             *)
C3_ResumeAnyPoint == helper.state = "ok" => ResumeReproduces

(* C3 amended: the same, at any point of a session in which no scan call   *)
(* that returned no record has taken bytes from the reader (a scan that    *)
(* fails with a read error drops the bytes it read without advancing       *)
(* Offset(), so the original session continues after them).                *)
C3_ResumeWithoutDroppedBytes ==
    (helper.state = "ok" /\ hist.dropped = 0) => ResumeReproduces

C3_Witness ==
    /\ helper.state = "ok"
    /\ hist.dropped = 0
    /\ hist.n >= 1
    /\ Offset(helper) > hist.initial
    /\ hist.initial > 0
    /\ Len(ScanRest(helper, source)) >= 3

----------------------------------------------------------------------------
(* C4: the scan that reads a final record without trailing newline returns *)
(* the trimmed record together with io.EOF, advances the offset by the raw *)
(* length and counts one item and the raw bytes in the tracker.            *)
C4_FinalRecordWithEOF ==
    [][ ( /\ helper.state = "ok"
          /\ source.failAt = -1
          /\ source.rd < Len(source.data)
          /\ \A i \in (source.rd + 1)..Len(source.data) : source.data[i] # 10 )
        =>
        LET n == Len(source.data) - source.rd
            bytes == helper.batchHelper.currentBytes + n
            items == helper.batchHelper.currentItems + 1
        IN  /\ ret'.hasRecord
            /\ ret'.err = EOF
            /\ ret'.line = TrimSpace(Slice(source.data, source.rd, Len(source.data)))
            /\ Offset(helper') = Offset(helper) + n
            /\ ret'.flush <=> ThresholdReached(helper.batchHelper.options, bytes, items)
            /\ helper'.batchHelper.currentBytes = IF ret'.flush THEN 0 ELSE bytes
            /\ helper'.batchHelper.currentItems = IF ret'.flush THEN 0 ELSE items
      ]_vars

C4_Witness ==
    /\ IsScan
    /\ ret.hasRecord
    /\ ret.err = EOF
    /\ ret.line # <<>>
    /\ hist.n >= 2
    /\ source.data[Len(source.data)] # 10

----------------------------------------------------------------------------
(* C5: a scan that reads zero bytes from an exhausted source returns no    *)
(* record, flush = true and io.EOF, and changes neither the offset nor the *)
(* tracker counters.                                                       *)
C5_CleanEndOfStream ==
    [][ ( /\ helper.state = "ok"
          /\ source.failAt = -1
          /\ source.rd = Len(source.data) )
        =>
        /\ ~ret'.hasRecord
        /\ ret'.line = <<>>
        /\ ret'.op = "ScanBytes" => ret'.isNil
        /\ ret'.flush
        /\ ret'.err = EOF
        /\ Offset(helper') = Offset(helper)
        /\ helper'.batchHelper = helper.batchHelper
      ]_vars

C5_Witness ==
    /\ helper.state = "ok"
    /\ IsScan
    /\ ~ret.hasRecord
    /\ ret.err = EOF
    /\ ret.flush
    /\ hist.n >= 1
    /\ helper.batchHelper.currentItems >= 1

----------------------------------------------------------------------------
(* C6: with FlushBytes = 0 and FlushItems = 0 the counters never trigger a *)
(* flush: ShouldFlush() is false after any increments, and a scan returns  *)
(* flush = false with every record, flush = true only with the clean end   *)
(* of stream that carries no record.                                       *)
BothDisabled(options) == options.FlushBytes = 0 /\ options.FlushItems = 0

C6_DisabledNeverFlushes ==
    /\ (batchHelper # NoBatchHelper /\ BothDisabled(batchHelper.options)
          /\ ret.op = "ShouldFlush") => ~ret.flush
    /\ (helper.state = "ok" /\ BothDisabled(helper.batchHelper.options) /\ IsScan) =>
          /\ ret.hasRecord => ~ret.flush
          /\ ret.flush => (~ret.hasRecord /\ ret.err = EOF)

C6_Witness ==
    /\ helper.state = "ok"
    /\ BothDisabled(helper.batchHelper.options)
    /\ IsScan
    /\ ret.hasRecord
    /\ ~ret.flush
    /\ hist.n >= 3
    /\ helper.batchHelper.currentBytes >= 3

----------------------------------------------------------------------------
(* C7: a ScannerHelper built with InitialOffset = k > 0 over a source of   *)
(* at least k bytes has discarded exactly k bytes: Offset() is k before the*)
(* first scan and the first scan returns the record starting at byte k.    *)
Line2 == <<108, 105, 110, 101, 50>>

C7_InitialOffsetDiscards ==
    [][ ( /\ ret.op = "NewScannerHelper"
          /\ helper.state = "ok"
          /\ hist.initial > 0 )
        =>
        /\ Offset(helper) = hist.initial
        /\ source.rd = hist.initial
        /\ (source.failAt = -1 /\ hist.initial < Len(source.data)) =>
              /\ ret'.hasRecord
              /\ ret'.line = TrimSpace(RecordAt(source.data, hist.initial))
              /\ Offset(helper') = hist.initial + Len(RecordAt(source.data, hist.initial))
        /\ (source.data = Line123 /\ hist.initial = 6) =>
              /\ ret'.line = Line2
              /\ Offset(helper') = 12
      ]_vars

C7_Witness ==
    /\ source.data = Line123
    /\ hist.initial = 6
    /\ hist.n = 1
    /\ ret.op = "ScanString"
    /\ ret.line = Line2
    /\ Offset(helper) = 12

----------------------------------------------------------------------------
(* C8: construction with an InitialOffset beyond the bytes the source can  *)
(* deliver fails and creates no session; otherwise it succeeds.            *)

\* the error that ends the discard of k bytes from the source, or Nil
DiscardOutcome(br, k) ==
    IF br.failAt >= 0 /\ br.failAt < k THEN ErrSource
    ELSE IF Len(br.data) < k THEN EOF
    ELSE Nil

IsConstruction == helper.state = "new" \/ decoder.state = "new"

Created == helper'.state = "ok" \/ decoder'.state = "ok"

----------------------------------------------------------------------------
(* C9: over a source without read or transformation error, a DecodeLogs    *)
(* call that returns records returns a nil error, io.EOF comes only with   *)
(* an empty batch, and after io.EOF no call returns a record.              *)
C9_EndOfStreamProtocol ==
    [][ ( /\ decoder.state = "ok"
          /\ ret'.op = "DecodeLogs"
          /\ ~hist'.failed
          /\ decoder'.s.err # ErrSource )
        =>
        /\ ret'.err \in {Nil, EOF}
        /\ Len(ret'.logs) >= 1 => ret'.err = Nil
        /\ ret'.err = EOF => ret'.logs = <<>>
        /\ (ret.op = "DecodeLogs" /\ ret.err = EOF) => ret'.err = EOF
      ]_vars

C9_Witness ==
    /\ ret.op = "DecodeLogs"
    /\ ret.err = EOF
    /\ ret.logs = <<>>
    /\ Len(hist.out) >= 2
    /\ ~hist.failed
    /\ decoder.s.err = EOF

----------------------------------------------------------------------------
(* C10: UnmarshalLogs returns the whole payload as one batch: for every    *)
(* buffer that decodes without error, the batch holds a record for every   *)
(* token, so that the decoder it built has no record left to return.       *)
C10_UnmarshalWholePayload ==
    (ret.op = "UnmarshalLogs" /\ ret.err = Nil) => hist.left = <<>>

----------------------------------------------------------------------------
(* Reference tokenization of a whole byte sequence by a pattern: a token   *)
(* is the bytes before the leftmost match, the last token the bytes after  *)
(* the last match; end is the position after the token and its match.      *)

RefMatchAt(re, data, i) ==
    IF re.kind = "literal"
    THEN /\ i + Len(re.bytes) <= Len(data)
         /\ \A j \in 1..Len(re.bytes) : data[i + j] = re.bytes[j]
    ELSE data[i + 1] = re.byte

RefMatchEnd(re, data, i) ==
    IF re.kind = "literal" THEN i + Len(re.bytes)
    ELSE CHOOSE j \in (i + 1)..Len(data) :
            /\ \A k \in (i + 1)..j : data[k] = re.byte
            /\ j = Len(data) \/ data[j + 1] # re.byte

RefMatches(re, data, from) ==
    {i \in from..(Len(data) - 1) : RefMatchAt(re, data, i)}

RefFirst(re, data, from) ==
    CHOOSE i \in RefMatches(re, data, from) :
        \A j \in RefMatches(re, data, from) : i <= j

RECURSIVE RefTokens(_, _, _)
RefTokens(re, data, from) ==
    IF from >= Len(data) THEN <<>>
    ELSE IF re = NoPattern \/ RefMatches(re, data, from) = {}
    THEN <<[token |-> Slice(data, from, Len(data)), end |-> Len(data)]>>
    ELSE <<[token |-> Slice(data, from, RefFirst(re, data, from)),
            end |-> RefMatchEnd(re, data, RefFirst(re, data, from))]>>
            \o RefTokens(re, data, RefMatchEnd(re, data, RefFirst(re, data, from)))

\* the pattern as the buffered data shows it: a source read one byte at a
\* time shows a run of the separator byte one byte at a time
Buffered(re, br) ==
    IF re.kind = "plus" /\ br.chunk = 1 THEN Literal(<<re.byte>>) ELSE re

\* the source of the run never fails a read
SourceNeverFails == source.failAt = -1 /\ decoder.s.err # ErrSource

PatternMode == decoder.state = "ok" /\ decoder.codec.unmarshalingSeparator # NoPattern

\* the tokens of the source from InitialOffset on
SourceTokens ==
    RefTokens(Buffered(decoder.codec.unmarshalingSeparator, source), source.data,
              hist.initial)

----------------------------------------------------------------------------
(* C11: in pattern mode, after every DecodeLogs call Offset() is the       *)
(* position in the source up to which the scanner has consumed tokens and  *)
(* their matches, and is the length of the source once io.EOF is returned; *)
(* over a source without read error the k records returned so far are the  *)
(* first k tokens of the source from InitialOffset on (the bytes before    *)
(* each leftmost match, then the unmatched remainder) and Offset() is the  *)
(* end of the k-th token with its match.                                   *)
C11_PatternTokensAndOffset ==
    (PatternMode /\ ret.op = "DecodeLogs") =>
        /\ offsetF(decoder) = decoder.s.start
        /\ ret.err = EOF => offsetF(decoder) = Len(source.data)
        /\ SourceNeverFails =>
            /\ Len(hist.out) <= Len(SourceTokens)
            /\ offsetF(decoder) =
                    IF hist.out = <<>> THEN hist.initial
                    ELSE SourceTokens[Len(hist.out)].end
            /\ \A k \in 1..Len(hist.out) :
                    (\A i \in 1..Len(SourceTokens[k].token) :
                        SourceTokens[k].token[i] # 255)
                    => hist.out[k].body = SourceTokens[k].token

C11_Witness ==
    /\ PatternMode
    /\ decoder.codec.unmarshalingSeparator = Literal(<<10>>)
    /\ source.data = <<97, 10, 97>>
    /\ hist.initial = 1
    /\ ret.op = "DecodeLogs"
    /\ ret.err = EOF
    /\ hist.out = <<[body |-> <<>>], [body |-> <<97>>]>>
    /\ offsetF(decoder) = 3

----------------------------------------------------------------------------
(* C12: without a pattern, and leaving transformation errors aside, a      *)
(* DecodeLogs call returns a record only once the source is exhausted: the *)
(* first call over a non-empty source returns exactly one record holding   *)
(* all the bytes from InitialOffset on, with a nil error and Offset() at   *)
(* the end of the source, and every call after it returns io.EOF with an   *)
(* empty batch.                                                            *)
WholeRemainderMode ==
    decoder.state = "ok" /\ decoder.codec.unmarshalingSeparator = NoPattern

Remainder == Slice(source.data, hist.initial, Len(source.data))

C12_WholeRemainder ==
    [][ ( /\ WholeRemainderMode
          /\ ret'.op = "DecodeLogs"
          /\ ret'.err # ErrDecode )
        =>
        /\ ret'.logs # <<>> =>
            /\ decoder'.s.err = EOF
            /\ source'.rd = Len(source.data)
            /\ hist.out = <<>>
            /\ Len(ret'.logs) = 1
            /\ (\A i \in 1..Len(Remainder) : Remainder[i] # 255)
                    => ret'.logs[1].body = Remainder
            /\ ret'.err = Nil
            /\ offsetF(decoder') = Len(source.data)
        /\ hist.out # <<>> => (ret'.logs = <<>> /\ ret'.err = EOF)
        /\ (hist.out = <<>> /\ Remainder # <<>> /\ decoder'.s.err = EOF)
                => ret'.logs # <<>>
      ]_vars

----------------------------------------------------------------------------
(* C13: MarshalLogs of a batch of K records returns the bodies of the      *)
(* records, in resource, scope and record order, joined by the marshaling  *)
(* separator: K - 1 separators, each between two consecutive bodies, none  *)
(* leading or trailing, and nothing at all when K = 0.                     *)

\* the records of a batch in resource, scope and record order
RECURSIVE Concat(_)
Concat(ss) == IF ss = <<>> THEN <<>> ELSE Head(ss) \o Concat(Tail(ss))

Records(ld) == Concat([i \in 1..Len(ld) |-> Concat(ld[i])])

RECURSIVE Join(_, _)
Join(lrs, sep) ==
    IF lrs = <<>> THEN <<>>
    ELSE IF Len(lrs) = 1 THEN lrs[1].body
    ELSE lrs[1].body \o sep \o Join(Tail(lrs), sep)

RECURSIVE BodyBytes(_)
BodyBytes(lrs) == IF lrs = <<>> THEN 0 ELSE Len(Head(lrs).body) + BodyBytes(Tail(lrs))

C13_MarshalJoinsWithSeparator ==
    ret.op = "MarshalLogs" =>
        /\ ret.err = Nil
        /\ ret.b = Join(Records(hist.ld), decoder.codec.marshalingSeparator)
        /\ Records(hist.ld) = <<>> => ret.b = <<>>
        /\ Records(hist.ld) # <<>> =>
                Len(ret.b) = BodyBytes(Records(hist.ld))
                    + (Len(Records(hist.ld)) - 1) * Len(decoder.codec.marshalingSeparator)

\* three records over two resources, the second with an empty body
C13_Witness ==
    /\ ret.op = "MarshalLogs"
    /\ decoder.codec.marshalingSeparator = <<44, 32>>
    /\ hist.ld = << << <<[body |-> <<97>>], [body |-> <<>>]>> >>,
                    << <<[body |-> <<97>>]>> >> >>
    /\ ret.b = <<97, 44, 32, 44, 32, 97>>

----------------------------------------------------------------------------
(* C14: NewDecoderOptions of a list of options holds, in each of           *)
(* FlushBytes, FlushItems and Offset, the value of the last option of the  *)
(* list that sets this field, and the default of the field (1 MiB, 1000,   *)
(* 0) when no option of the list sets it: an option changes no field but   *)
(* its own.                                                                *)
Setters(opts, field) == {i \in 1..Len(opts) : opts[i].field = field}

LastSet(opts, field, default) ==
    IF Setters(opts, field) = {} THEN default
    ELSE opts[CHOOSE i \in Setters(opts, field) :
                \A j \in Setters(opts, field) : j <= i].value

C14_LastOptionWins ==
    ret.op = "NewDecoderOptions" =>
        /\ ret.options.FlushBytes = LastSet(hist.opts, "FlushBytes", 1024 * 1024)
        /\ ret.options.FlushItems = LastSet(hist.opts, "FlushItems", 1000)
        /\ ret.options.Offset = LastSet(hist.opts, "Offset", 0)

\* FlushBytes set twice, Offset once, FlushItems never
C14_Witness ==
    /\ ret.op = "NewDecoderOptions"
    /\ hist.opts = <<WithFlushBytes(2), WithOffset(2), WithFlushBytes(0)>>
    /\ ret.options = [FlushBytes |-> 0, FlushItems |-> 1000, Offset |-> 2]

----------------------------------------------------------------------------
(* C15: over the scan calls of a ScannerHelper and over the DecodeLogs     *)
(* calls of a text decoder, whatever they return, Offset() never           *)
(* decreases, and it is never smaller than InitialOffset.                  *)
C15_OffsetMonotonic ==
    [][ /\ helper'.state = "ok" => Offset(helper') >= hist'.initial
        /\ (helper.state = "ok" /\ helper'.state = "ok")
                => Offset(helper') >= Offset(helper)
        /\ decoder'.state = "ok" => offsetF(decoder') >= hist'.initial
        /\ (decoder.state = "ok" /\ decoder'.state = "ok")
                => offsetF(decoder') >= offsetF(decoder)
      ]_vars

\* a decoder built at offset 1 that has returned two batches and then the
\* end of the stream
C15_Witness ==
    /\ decoder.state = "ok"
    /\ hist.initial = 1
    /\ ret.op = "DecodeLogs"
    /\ ret.err = EOF
    /\ Len(hist.out) = 2
    /\ decoder.batchHelper.options.FlushItems = 1
    /\ offsetF(decoder) = 3

----------------------------------------------------------------------------
(* C16: a scan call that returns a record returns flush = true exactly     *)
(* when the raw bytes or the records of the calls since the last record    *)
(* returned with flush = true (or since construction), this record         *)
(* included, reach an enabled threshold, and then leaves both counters of  *)
(* the tracker at zero; after every scan call the tracker holds what was   *)
(* accumulated since that flush and meets no enabled threshold.            *)
C16_ScanFlushIffThreshold ==
    (helper.state = "ok" /\ IsScan) =>
        /\ ret.hasRecord =>
            /\ ret.flush <=> ThresholdReached(helper.batchHelper.options,
                                               hist.accBytes, hist.accItems)
            /\ ret.flush => /\ helper.batchHelper.currentBytes = 0
                            /\ helper.batchHelper.currentItems = 0
        /\ ~hist.flushed => /\ helper.batchHelper.currentBytes = hist.accBytes
                            /\ helper.batchHelper.currentItems = hist.accItems
        /\ ~ThresholdReached(helper.batchHelper.options,
                             helper.batchHelper.currentBytes,
                             helper.batchHelper.currentItems)

\* the fourth record reaches the item threshold again, after the second
\* reached it, and the byte threshold is not reached
C16_Witness ==
    /\ helper.state = "ok"
    /\ IsScan
    /\ ret.hasRecord
    /\ ret.flush
    /\ hist.n = 4
    /\ hist.accItems = 2
    /\ hist.accBytes = 2
    /\ helper.batchHelper.options.FlushBytes = 3
    /\ helper.batchHelper.options.FlushItems = 2
    /\ helper.batchHelper.currentBytes = 0

----------------------------------------------------------------------------
(* C17: over a source without read error and without transformation error, *)
(* a DecodeLogs call returns its batch as soon as the tokens of the batch  *)
(* reach an enabled threshold, with the tracker reset, and otherwise only  *)
(* at the end of the source; the batches returned so far, in call order,   *)
(* are the first tokens of the source from InitialOffset on, transformed,  *)
(* and all of them once io.EOF is returned.                                *)

\* the per-record transformation, byte by byte
Transformed(dec, token) ==
    IF dec = "strict" THEN token
    ELSE Concat([i \in 1..Len(token) |->
                    IF token[i] = 255 THEN <<195, 191>> ELSE <<token[i]>>])

\* the bytes of the tokens from the i-th to the j-th
RECURSIVE TokenBytes(_, _, _)
TokenBytes(tokens, i, j) ==
    IF i > j THEN 0 ELSE Len(tokens[i].token) + TokenBytes(tokens, i + 1, j)

\* the number of records returned before the last call
Before == Len(hist.out) - Len(ret.logs)

C17_BatchesAreTheTokens ==
    ( /\ decoder.state = "ok"
      /\ ret.op = "DecodeLogs"
      /\ SourceNeverFails
      /\ ~hist.failed )
    =>
    /\ Len(hist.out) <= Len(SourceTokens)
    /\ \A k \in 1..Len(hist.out) :
            hist.out[k].body = Transformed(decoder.codec.decoder, SourceTokens[k].token)
    /\ ret.err = EOF => Len(hist.out) = Len(SourceTokens)
    /\ \A m \in 1..(Len(ret.logs) - 1) :
            ~ThresholdReached(decoder.batchHelper.options,
                              TokenBytes(SourceTokens, Before + 1, Before + m), m)
    /\ ret.logs # <<>> =>
            IF ThresholdReached(decoder.batchHelper.options,
                                TokenBytes(SourceTokens, Before + 1, Len(hist.out)),
                                Len(ret.logs))
            THEN /\ decoder.batchHelper.currentBytes = 0
                 /\ decoder.batchHelper.currentItems = 0
            ELSE /\ Len(hist.out) = Len(SourceTokens)
                 /\ decoder.batchHelper.currentItems = Len(ret.logs)

\* two batches of one record each, then the end of the stream
C17_Witness ==
    /\ decoder.state = "ok"
    /\ decoder.codec = [unmarshalingSeparator |-> Literal(<<10>>), decoder |-> "latin1"]
    /\ decoder.batchHelper.options.FlushItems = 1
    /\ source.data = <<97, 10, 255>>
    /\ source.chunk = 1
    /\ ret = [op |-> "DecodeLogs", logs |-> <<>>, err |-> EOF]
    /\ hist.out = <<[body |-> <<97>>], [body |-> <<195, 191>>]>>

----------------------------------------------------------------------------
(* C18: the text decoder appends a record and counts an item only for a    *)
(* non-empty token: over a source without read error and without           *)
(* transformation error, the records returned so far are the first         *)
(* non-empty tokens of the source from InitialOffset on, transformed, and  *)
(* the tracker has counted no more items than the last batch holds         *)
(* non-empty records.                                                      *)
NonEmptyTokens == SelectSeq(SourceTokens, LAMBDA t : t.token # <<>>)

C18_EmptyTokensSkipped ==
    ( /\ decoder.state = "ok"
      /\ ret.op = "DecodeLogs"
      /\ SourceNeverFails
      /\ ~hist.failed )
    =>
    /\ Len(hist.out) <= Len(NonEmptyTokens)
    /\ \A k \in 1..Len(hist.out) :
            /\ hist.out[k].body # <<>>
            /\ k <= Len(NonEmptyTokens) =>
                    hist.out[k].body =
                        Transformed(decoder.codec.decoder, NonEmptyTokens[k].token)
    /\ decoder.batchHelper.currentItems
            <= Cardinality({k \in 1..Len(ret.logs) : ret.logs[k].body # <<>>})

----------------------------------------------------------------------------
(* C19: a call that ends with the error of the per-record transformation   *)
(* hands no record to the caller.                                          *)
C19_FailedCallDiscardsBatch ==
    (ret.op \in {"DecodeLogs", "UnmarshalLogs"} /\ ret.err = ErrDecode)
        => ret.logs = <<>>

\* the token fails the transformation of the codec
Fails(dec, token) == dec = "strict" /\ \E i \in 1..Len(token) : token[i] = 255

(* C19, as the code has it: over a source without read error, DecodeLogs   *)
(* returns the error of the transformation at the first token of the call  *)
(* that fails it, without consuming a further token, together with the     *)
(* batch in progress: the records of the earlier tokens of the call and    *)
(* one record with an empty body for the failed token; the records of the  *)
(* earlier calls stay as they were returned.  UnmarshalLogs returns an     *)
(* empty batch with the error.                                             *)
C19_FailedCallReturnsBatch ==
    /\ (ret.op = "UnmarshalLogs" /\ ret.err # Nil) => ret.logs = <<>>
    /\ ( /\ decoder.state = "ok"
         /\ ret.op = "DecodeLogs"
         /\ SourceNeverFails )
       =>
       /\ Len(hist.out) <= Len(SourceTokens)
       /\ \A k \in 1..Len(hist.out) :
            hist.out[k].body =
                IF Fails(decoder.codec.decoder, SourceTokens[k].token) THEN <<>>
                ELSE Transformed(decoder.codec.decoder, SourceTokens[k].token)
       /\ \A k \in (Before + 1)..(Len(hist.out) - 1) :
            ~Fails(decoder.codec.decoder, SourceTokens[k].token)
       /\ ret.err = ErrDecode <=>
            /\ ret.logs # <<>>
            /\ Fails(decoder.codec.decoder, SourceTokens[Len(hist.out)].token)
       /\ ret.logs # <<>> => offsetF(decoder) = SourceTokens[Len(hist.out)].end

\* the second token of the call fails: the batch holds the record of the
\* first, whose body is empty as the token is, and the record of the second
C19_Witness ==
    /\ decoder.state = "ok"
    /\ decoder.codec = [unmarshalingSeparator |-> Literal(<<10>>), decoder |-> "strict"]
    /\ source.data = <<10, 255, 10>>
    /\ hist.initial = 0
    /\ ret = [op |-> "DecodeLogs", logs |-> <<[body |-> <<>>], EmptyRecord>>,
              err |-> ErrDecode]
    /\ offsetF(decoder) = 3

----------------------------------------------------------------------------
(* C20: a scan call during which the source fails a read with an error     *)
(* other than io.EOF returns that error, no record and flush = false,      *)
(* without a second read (which would succeed), and leaves Offset() and    *)
(* the counters of the tracker as they were: Offset() still is             *)
(* InitialOffset plus the raw bytes of the records returned, the position  *)
(* in the source at which the failing call started.                        *)
C20_ReadErrorPassesThrough ==
    [][ ( /\ helper.state = "ok"
          /\ ret'.op \in {"ScanString", "ScanBytes"}
          /\ source.failAt # -1
          /\ source'.failAt = -1 )
        =>
        /\ ret'.err = ErrSource
        /\ ~ret'.hasRecord
        /\ ret'.line = <<>>
        /\ ret'.op = "ScanBytes" => ret'.isNil
        /\ ~ret'.flush
        /\ source'.rd = source.failAt
        /\ helper' = helper
        /\ Offset(helper') = hist'.initial + hist'.raw
        /\ Offset(helper') = source.rd
      ]_vars

\* the read fails after a first record was returned and one byte of the
\* second was read
C20_Witness ==
    /\ helper.state = "ok"
    /\ IsScan
    /\ ret.err = ErrSource
    /\ hist.n = 1
    /\ hist.dropped = 1
    /\ hist.initial = 1
    /\ Offset(helper) = 3
    /\ helper.batchHelper.currentItems = 1
    /\ source.rd = 4

----------------------------------------------------------------------------
(* C21: over a source without read error, after a DecodeLogs call that     *)
(* returned a batch with Offset() at k, a decoder built over the same      *)
(* source with the same thresholds and WithOffset(k) returns, call after   *)
(* call, the records that the session returns from here on.                *)

\* the records of at most n more DecodeLogs calls, up to the first error
RECURSIVE Drain(_, _, _)
Drain(d, br, n) ==
    IF n = 0 THEN <<>>
    ELSE CHOOSE out \in {IF r.err # Nil THEN r.logs
                         ELSE r.logs \o Drain(r.d, r.br, n - 1) :
                            r \in {DecodeLogs(d, br)}} : TRUE

\* the decoder built over the source of the run at the offset of the session
ResumedDecoder ==
    NewLogsDecoder(decoder.codec,
                   NewChunkReader(source.data, -1, source.chunk),
                   <<WithFlushBytes(decoder.batchHelper.options.FlushBytes),
                     WithFlushItems(decoder.batchHelper.options.FlushItems),
                     WithOffset(offsetF(decoder))>>)

C21_DecoderResume ==
    ( /\ decoder.state = "ok"
      /\ ret.op = "DecodeLogs"
      /\ ret.err = Nil
      /\ ret.logs # <<>> )
    =>
    /\ ResumedDecoder.err = Nil
    /\ Drain(ResumedDecoder.d, ResumedDecoder.br, Len(source.data) + 1)
            = Drain(decoder, source, Len(source.data) + 1)

----------------------------------------------------------------------------
(* C22: the scan call that follows a scan call that returned io.EOF        *)
(* returns no record, flush = true and io.EOF and leaves Offset() as it    *)
(* was; the DecodeLogs call that follows a DecodeLogs call that returned   *)
(* io.EOF returns an empty batch and io.EOF and leaves Offset() as it was. *)
C22_EndOfStreamAbsorbing ==
    [][ /\ ( /\ helper.state = "ok"
             /\ ret.op \in {"ScanString", "ScanBytes"}
             /\ ret.err = EOF
             /\ ret'.op \in {"ScanString", "ScanBytes"} )
           =>
           /\ ~ret'.hasRecord
           /\ ret'.line = <<>>
           /\ ret'.flush
           /\ ret'.err = EOF
           /\ Offset(helper') = Offset(helper)
        /\ ( /\ decoder.state = "ok"
             /\ ret.op = "DecodeLogs"
             /\ ret.err = EOF
             /\ ret'.op = "DecodeLogs" )
           =>
           /\ ret'.logs = <<>>
           /\ ret'.err = EOF
           /\ offsetF(decoder') = offsetF(decoder)
      ]_vars

\* the second record has no delimiter and came with io.EOF; the call after
\* it returned io.EOF again
C22_Witness ==
    /\ helper.state = "ok"
    /\ IsScan
    /\ ret.err = EOF
    /\ ~ret.hasRecord
    /\ ret.flush
    /\ source.data = <<97, 10, 97>>
    /\ hist.initial = 0
    /\ hist.n = 2
    /\ Offset(helper) = 3

----------------------------------------------------------------------------
C23_WitnessDecoder ==
    /\ decoder.state = "ok"
    /\ ret.op = "DecodeLogs"
    /\ ret.err = EOF
    /\ ret.logs = <<>>
    /\ hist.initial = 0
    /\ Len(hist.out) = 3

----------------------------------------------------------------------------
(* Line runs: decoder sessions over sources made of whole lines, some of   *)
(* which fail the "strict" transformation, read two bytes at a time or in  *)
(* one piece, without read error                                           *)

Lines == {<<97, 10>>, <<255, 10>>}

LineSources ==
    {NewChunkReader(Concat(x[1]), -1, x[2]) :
        x \in SeqsUpTo(Lines, MaxLines) \X {2, 2 * MaxLines + 1}}

LineCodecs ==
    {[unmarshalingSeparator |-> sep, decoder |-> dec] :
        <<sep, dec>> \in {NoPattern, Literal(<<10>>)} \X {"latin1", "strict"}}

InitLines ==
    /\ batchHelper = NoBatchHelper
    /\ source \in LineSources
    /\ helper = NoHelper
    /\ \E r \in LineCodecs : decoder = [state |-> "new", codec |-> r]
    /\ ret = NoRet
    /\ hist = [initial |-> 0, out |-> <<>>, failed |-> FALSE]

NextLines == NextDecoder

SpecLines == InitLines /\ [][NextLines]_vars

----------------------------------------------------------------------------
(* C24: with FlushItems = n > 0 every batch DecodeLogs returns holds at    *)
(* most n records; and a batch returned with a nil error while bytes of    *)
(* the source are still unread has reached a threshold (it holds exactly n *)
(* records, or its tokens' byte lengths sum to at least FlushBytes > 0),   *)
(* and the tracker counters are zero after the call.                       *)
C24_BatchSizeBound ==
    (decoder.state = "ok" /\ ret.op = "DecodeLogs" /\ ret.logs # <<>>)
    =>
    /\ decoder.batchHelper.options.FlushItems > 0
            => Len(ret.logs) <= decoder.batchHelper.options.FlushItems
    /\ (ret.err = Nil /\ source.rd < Len(source.data))
            =>
            /\ \/ /\ decoder.batchHelper.options.FlushItems > 0
                  /\ Len(ret.logs) = decoder.batchHelper.options.FlushItems
               \/ /\ decoder.batchHelper.options.FlushBytes > 0
                  /\ TokenBytes(SourceTokens, Before + 1, Len(hist.out))
                        >= decoder.batchHelper.options.FlushBytes
            /\ decoder.batchHelper.currentBytes = 0
            /\ decoder.batchHelper.currentItems = 0

\* the same, in the sessions none of whose calls has failed
C24_BatchSizeBoundNoFailure == ~hist.failed => C24_BatchSizeBound

\* the first half of C24 alone
C24_AtMostFlushItems ==
    ( /\ decoder.state = "ok"
      /\ ret.op = "DecodeLogs"
      /\ decoder.batchHelper.options.FlushItems > 0 )
    => Len(ret.logs) <= decoder.batchHelper.options.FlushItems

----------------------------------------------------------------------------
(* Round-trip runs: UnmarshalLogs of the buffer hist.buf, which is an      *)
(* enumerated buffer or, once hist.marshaled, what MarshalLogs returned    *)
(* for the batch hist.ld                                                   *)

TripCodecs ==
    {[marshalingSeparator |-> x[1], unmarshalingSeparator |-> x[2], decoder |-> x[3]] :
        x \in MarshalingSeparators \X {NoPattern, Literal(<<10>>)} \X {"latin1", "strict"}}

InitTrip ==
    /\ batchHelper = NoBatchHelper
    /\ source = NoSource
    /\ helper = NoHelper
    /\ \E r \in TripCodecs : decoder = [state |-> "codec", codec |-> r]
    /\ ret = NoRet
    /\ \/ \E ld \in LogsUpTo(MaxTripEvents) :
            hist = [ld |-> ld, buf |-> <<>>, left |-> <<>>, marshaled |-> FALSE]
       \/ \E buf \in DecoderData :
            hist = [ld |-> <<>>, buf |-> buf, left |-> <<>>, marshaled |-> FALSE]

\* UnmarshalLogs(MarshalLogs(ld)): the caller hands the bytes that MarshalLogs
\* returned to UnmarshalLogs
CallUnmarshalMarshaled ==
    /\ decoder.state = "codec"
    /\ ret.op = "MarshalLogs"
    /\ ret.err = Nil
    /\ \E r \in {UnmarshalLogs(decoder.codec, ret.b)} :
           /\ ret' = [op |-> "UnmarshalLogs", logs |-> r.logs, err |-> r.err]
           /\ hist' = [hist EXCEPT !.buf = ret.b, !.marshaled = TRUE]
    /\ UNCHANGED <<batchHelper, source, helper, decoder>>

NextTrip ==
    \/ CallMarshalLogs
    \/ CallUnmarshalMarshaled
    \/ CallUnmarshalLogs

SpecTrip == InitTrip /\ [][NextTrip]_vars

\* the number of log records of a batch
RecordCount(ld) == Len(Records(ld))

\* the tokens of the buffer of the run
BufferTokens == RefTokens(decoder.codec.unmarshalingSeparator, hist.buf, 0)

----------------------------------------------------------------------------
====
